---- MODULE Spec2Model ----
(***************************************************************************)
(* Model of aws_ecr_scan_results.py: one run of main().                    *)
(*                                                                         *)
(* Text is modelled as a sequence of string tokens: the Python empty       *)
(* string is <<>>, concatenation is \o.  Literal pieces of a format        *)
(* string are one token each; a repository name is spelled by one token    *)
(* per character, so that the substring test of get_repositories is the    *)
(* one Python computes.                                                    *)
(*                                                                         *)
(* The remote services (STS, ECR, the waiter, the webhook) are the         *)
(* environment: each call draws its outcome from the outcomes the service  *)
(* can produce.  A findings response is well formed (name, severity, uri   *)
(* and findingSeverityCounts present, description optional).               *)
(***************************************************************************)
EXTENDS Integers, Sequences, FiniteSets, TLC

VARIABLES
    args,             \* argparse namespace (search, tag, result_limit, slack_webhook, post_to_slack)
    registry,         \* repository names the registry lists, in listing order
    aws_iam_session,  \* ECRScanChecker.aws_iam_session
    images_to_check,  \* ECRScanChecker.images_to_check
    report,           \* ECRScanChecker.report
    pc,               \* position of main()
    image,            \* index of the for loops over images_to_check
    calls,            \* outbound calls made so far, in order
    scan_findings,    \* what get_ecr_scan_findings returned for each image so far
    posts,            \* requests.post calls made: url and body
    http_response,    \* the webhook's response to the last POST
    raised            \* the exception that ended the run, if any

vars == <<args, registry, aws_iam_session, images_to_check, report, pc, image,
          calls, scan_findings, posts, http_response, raised>>

----------------------------------------------------------------------------
(* Bounds *)

MaxRepos == 2        \* repositories listed by the registry (workflow runs)
MaxFindings == 1     \* findings returned for one image
MaxListing == 2      \* repositories listed (filter runs)
MaxNameLen == 2      \* characters of a repository name (filter runs)
MaxSearchLen == 2    \* characters of the --search term (filter runs)

(* Program constants *)

DefaultResultLimit == 5
StatusOK == 200

----------------------------------------------------------------------------
(* Values *)

Svc_a == <<"s", "v", "c", "-", "a">>
Svc_b == <<"s", "v", "c", "-", "b">>
Api == <<"a", "p", "i">>
RepoUniverse == {Svc_a, Svc_b, Api}
SearchTerms == {<<>>, <<"s", "v", "c">>}

Alphabet == {"a", "A"}
Strings(n) == UNION {[1..k -> Alphabet] : k \in 0..n}

\* Listings of at most n distinct names of S, in every order.
Listings(S, n) ==
    UNION {{l \in [1..k -> S] : \A i, j \in 1..k : i # j => l[i] # l[j]} : k \in 0..n}

Cve1234 == [name |-> "CVE-1234", severity |-> "HIGH", uri |-> "http://x",
            has_description |-> FALSE, description |-> ""]
Cve5678 == [name |-> "CVE-5678", severity |-> "LOW", uri |-> "http://y",
            has_description |-> TRUE, description |-> "heap overflow"]
FindingUniverse == {Cve1234, Cve5678}

WebhookUrl == "https://hooks.slack.test/T0"
NoWebhook == [is_none |-> TRUE, url |-> ""]
Webhook(u) == [is_none |-> FALSE, url |-> u]

\* --post_to_slack: the default True, or the text given on the command line.
PostToSlackDefault == [given |-> FALSE, text |-> ""]
PostToSlackText(t) == [given |-> TRUE, text |-> t]

NoError == [type |-> "", status_code |-> 0, text |-> ""]
NoResponse == [received |-> FALSE, status_code |-> 0, text |-> ""]
HttpResponse(code, body) == [received |-> TRUE, status_code |-> code, text |-> body]

Call(op, i, ok) == [op |-> op, image |-> i, ok |-> ok]

----------------------------------------------------------------------------
(* Pure functions *)

\* Python `s in t` on strings: s occurs in t as a contiguous run of characters.
IsSubstring(s, t) ==
    \E i \in 0..(Len(t) - Len(s)) : SubSeq(t, i + 1, i + Len(s)) = s

\* A mis-typed filter: the name must start with the search term.
StartsWith(s, t) ==
    Len(s) <= Len(t) /\ SubSeq(t, 1, Len(s)) = s

\* `search_term in repository["repositoryName"]`
matches(search_term, repositoryName) == IsSubstring(search_term, repositoryName)

RECURSIVE get_repositories_loop(_, _, _)
get_repositories_loop(repositories, search_term, acc) ==
    IF repositories = <<>> THEN acc
    ELSE get_repositories_loop(
             Tail(repositories), search_term,
             IF matches(search_term, Head(repositories))
             THEN Append(acc, Head(repositories))
             ELSE acc)

get_repositories(repositories, search_term) ==
    get_repositories_loop(repositories, search_term, <<>>)

\* inspect.cleandoc on the two templates: the continuation lines' common
\* indentation goes, and so do leading and trailing blank lines.
Indent == "    "

RECURSIVE Dedent(_)
Dedent(doc) ==
    IF Len(doc) < 2 THEN doc
    ELSE IF doc[1] = "\n" /\ doc[2] = Indent
         THEN <<"\n">> \o Dedent(SubSeq(doc, 3, Len(doc)))
         ELSE <<doc[1]>> \o Dedent(Tail(doc))

RECURSIVE StripLeading(_)
StripLeading(doc) ==
    IF doc # <<>> /\ Head(doc) = "\n" THEN StripLeading(Tail(doc)) ELSE doc

RECURSIVE StripTrailing(_)
StripTrailing(doc) ==
    IF doc # <<>> /\ doc[Len(doc)] = "\n"
    THEN StripTrailing(SubSeq(doc, 1, Len(doc) - 1))
    ELSE doc

cleandoc(doc) == StripTrailing(StripLeading(Dedent(doc)))

\* findingSeverityCounts as the registry reports it for a findings list.
SeverityCounts(findings) ==
    [s \in {findings[i].severity : i \in 1..Len(findings)} |->
        Cardinality({i \in 1..Len(findings) : findings[i].severity = s})]

title(img) ==
    <<"\n\n:warning: *AWS ECR Scan found results for ">> \o img \o <<":* \n">>

severity_counts(counts, report_limit) ==
    cleandoc(<<"Severity finding counts: ", ToString(counts), "\n",
               Indent, "Displaying the first ", ToString(report_limit),
               " in order of severity", "\n",
               "\n",
               Indent>>)

result(img, tag, finding) ==
    LET description == IF finding.has_description THEN finding.description ELSE "None"
    IN  cleandoc(<<"*Image:* ">> \o img \o
                 <<"\n", Indent, "**Tag:* ", tag,
                   "\n", Indent, "*Severity:* ", finding.severity,
                   "\n", Indent, "*CVE:* ", finding.name,
                   "\n", Indent, "*Description:* ", description,
                   "\n", Indent, "*Link:* ", finding.uri,
                   "\n",
                   "\n", Indent>>)

\* for finding in findings["findings"]: self.report += result
RECURSIVE add_findings(_, _, _, _)
add_findings(rep, img, tag, findings) ==
    IF findings = <<>> THEN rep
    ELSE add_findings(rep \o result(img, tag, Head(findings)), img, tag, Tail(findings))

\* self.report = title + severity_counts
start_block(rep, header) == header

\* A header that would be written whether or not there are findings.
has_findings_always(findings) == TRUE

\* findings["findings"] != []
has_findings(findings) == findings # <<>>

\* The body of the try of recursive_check_make_report for one image.
check_make_report(rep, img, tag, report_limit, response) ==
    IF ~response.ok THEN rep
    ELSE IF has_findings(response.findings)
         THEN add_findings(
                  start_block(rep, title(img) \o
                      severity_counts(SeverityCounts(response.findings), report_limit)),
                  img, tag, response.findings)
         ELSE rep

branch_info(circle_branch, circle_build_url) ==
    <<"\n*Github Branch:* ">> \o circle_branch \o
    <<"\n*CircleCI Job Link:* ">> \o circle_build_url \o <<"\n\n">>

\* A finalise_report that lost its emptiness test.
finalised_always(rep, circle_branch, circle_build_url) ==
    rep \o branch_info(circle_branch, circle_build_url)

finalised(rep, circle_branch, circle_build_url) ==
    IF rep # <<>> THEN rep \o branch_info(circle_branch, circle_build_url) ELSE rep

\* Python truth value of args.post_to_slack: True by default, else the
\* command-line text, which is true unless empty.
truth(post_to_slack) ==
    IF post_to_slack.given THEN post_to_slack.text # "" ELSE TRUE

\* json.dumps({"text": self.report})
json_dumps_text(rep) == [text |-> rep]

----------------------------------------------------------------------------
(* Outcomes of the remote calls *)

WaiterOutcomes == {"COMPLETE", "TIMEOUT", "NOT_FOUND"}

FindingsLists == Listings(FindingUniverse, MaxFindings)
FetchFailed == [ok |-> FALSE, findings |-> <<>>]
Fetched(findings) == [ok |-> TRUE, findings |-> findings]
FetchOutcomes == {FetchFailed} \cup {Fetched(f) : f \in FindingsLists}

EnvValues == {<<>>, <<"main">>}

PostOutcomes ==
    {NoResponse, HttpResponse(200, "ok"), HttpResponse(400, "no_text"),
     HttpResponse(500, "server_error")}

----------------------------------------------------------------------------
(* main(): parser.parse_args() *)

ParsedArgs(search, cli_webhook, env_webhook, post_to_slack) ==
    [search |-> search,
     tag |-> "latest",
     result_limit |-> DefaultResultLimit,
     slack_webhook |-> IF cli_webhook.is_none THEN env_webhook ELSE cli_webhook,
     post_to_slack |-> post_to_slack]

Start ==
    /\ aws_iam_session = ""
    /\ images_to_check = <<>>
    /\ report = <<>>
    /\ pc = "set_iam_role_session"
    /\ image = 0
    /\ calls = <<>>
    /\ scan_findings = <<>>
    /\ posts = <<>>
    /\ http_response = NoResponse
    /\ raised = NoError

Init ==
    /\ \E search \in SearchTerms,
          cli_webhook \in {NoWebhook, Webhook(WebhookUrl)},
          env_webhook \in {NoWebhook, Webhook(WebhookUrl)},
          post_to_slack \in {PostToSlackDefault, PostToSlackText("False"),
                             PostToSlackText("")} :
          args = ParsedArgs(search, cli_webhook, env_webhook, post_to_slack)
    /\ registry \in Listings(RepoUniverse, MaxRepos)
    /\ Start

\* Runs of the constructor alone, over every small listing and search term.
InitFilter ==
    /\ \E search \in Strings(MaxSearchLen) :
          args = ParsedArgs(search, NoWebhook, NoWebhook, PostToSlackDefault)
    /\ registry \in Listings(Strings(MaxNameLen) \ {<<>>}, MaxListing)
    /\ Start

----------------------------------------------------------------------------
(* ECRScanChecker.__init__ *)

\* A set_iam_role_session that swallowed the rejection.
set_iam_role_session_swallowed ==
    /\ pc = "set_iam_role_session"
    /\ \E ok \in BOOLEAN :
          /\ calls' = Append(calls, Call("assume_role", 0, ok))
          /\ aws_iam_session' = IF ok THEN "Credentials" ELSE ""
          /\ pc' = "get_repositories"
          /\ raised' = raised
    /\ UNCHANGED <<args, registry, images_to_check, report, image, scan_findings,
                   posts, http_response>>

set_iam_role_session ==
    /\ pc = "set_iam_role_session"
    /\ \E ok \in BOOLEAN :
          /\ calls' = Append(calls, Call("assume_role", 0, ok))
          /\ IF ok
             THEN /\ aws_iam_session' = "Credentials"
                  /\ pc' = "get_repositories"
                  /\ raised' = raised
             ELSE /\ aws_iam_session' = aws_iam_session
                  /\ pc' = "raised"
                  /\ raised' = [type |-> "ClientError", status_code |-> 0,
                                text |-> "assume_role"]
    /\ UNCHANGED <<args, registry, images_to_check, report, image, scan_findings,
                   posts, http_response>>

\* self.images_to_check = self.get_repositories(search_term)
describe_repositories ==
    /\ pc = "get_repositories"
    /\ \E ok \in BOOLEAN :
          /\ calls' = Append(calls, Call("describe_repositories", 0, ok))
          /\ IF ok
             THEN /\ images_to_check' = get_repositories(registry, args.search)
                  /\ pc' = "recursive_wait"
                  /\ image' = 1
                  /\ raised' = raised
             ELSE /\ images_to_check' = images_to_check
                  /\ pc' = "raised"
                  /\ image' = image
                  /\ raised' = [type |-> "ClientError", status_code |-> 0,
                                text |-> "describe_repositories"]
    /\ UNCHANGED <<args, registry, aws_iam_session, report, scan_findings,
                   posts, http_response>>

----------------------------------------------------------------------------
(* recursive_wait *)

\* A wait_for_scan_completion without its try/except.
wait_for_scan_completion_uncaught ==
    /\ pc = "recursive_wait"
    /\ image <= Len(images_to_check)
    /\ \E outcome \in WaiterOutcomes :
          /\ calls' = Append(calls, Call("wait", image, outcome = "COMPLETE"))
          /\ IF outcome = "COMPLETE"
             THEN image' = image + 1 /\ pc' = pc /\ raised' = raised
             ELSE /\ image' = image
                  /\ pc' = "raised"
                  /\ raised' = [type |-> "WaiterError", status_code |-> 0,
                                text |-> outcome]
    /\ UNCHANGED <<args, registry, aws_iam_session, images_to_check, report,
                   scan_findings, posts, http_response>>

\* One iteration of the loop: the waiter's failure is caught and printed.
wait_for_scan_completion ==
    /\ pc = "recursive_wait"
    /\ image <= Len(images_to_check)
    /\ \E outcome \in WaiterOutcomes :
          calls' = Append(calls, Call("wait", image, outcome = "COMPLETE"))
    /\ image' = image + 1
    /\ UNCHANGED <<args, registry, aws_iam_session, images_to_check, report, pc,
                   scan_findings, posts, http_response, raised>>

\* A loop that returns after its first iteration.
recursive_wait_returns_early ==
    /\ pc = "recursive_wait"
    /\ image > Len(images_to_check) \/ image > 1
    /\ pc' = "recursive_check_make_report"
    /\ image' = 1
    /\ UNCHANGED <<args, registry, aws_iam_session, images_to_check, report, calls,
                   scan_findings, posts, http_response, raised>>

\* The loop is exhausted: main goes on to recursive_check_make_report.
recursive_wait_returns ==
    /\ pc = "recursive_wait"
    /\ image > Len(images_to_check)
    /\ pc' = "recursive_check_make_report"
    /\ image' = 1
    /\ UNCHANGED <<args, registry, aws_iam_session, images_to_check, report, calls,
                   scan_findings, posts, http_response, raised>>

----------------------------------------------------------------------------
(* recursive_check_make_report *)

\* One iteration of the loop: fetch, then format inside the try.
recursive_check_make_report ==
    /\ pc = "recursive_check_make_report"
    /\ image <= Len(images_to_check)
    /\ \E response \in FetchOutcomes :
          /\ calls' = Append(calls, Call("fetch", image, response.ok))
          /\ scan_findings' = Append(scan_findings, response)
          /\ report' = check_make_report(report, images_to_check[image], args.tag,
                                         args.result_limit, response)
    /\ image' = image + 1
    /\ UNCHANGED <<args, registry, aws_iam_session, images_to_check, pc, posts,
                   http_response, raised>>

recursive_check_make_report_returns ==
    /\ pc = "recursive_check_make_report"
    /\ image > Len(images_to_check)
    /\ pc' = "finalise_report"
    /\ UNCHANGED <<args, registry, aws_iam_session, images_to_check, report, image,
                   calls, scan_findings, posts, http_response, raised>>

----------------------------------------------------------------------------
(* finalise_report, post_to_slack *)

finalise_report ==
    /\ pc = "finalise_report"
    /\ \E circle_branch \in EnvValues, circle_build_url \in EnvValues :
          report' = finalised(report, circle_branch, circle_build_url)
    /\ calls' = Append(calls, Call("finalise", 0, TRUE))
    /\ pc' = "deliver"
    /\ UNCHANGED <<args, registry, aws_iam_session, images_to_check, image,
                   scan_findings, posts, http_response, raised>>

\* if args.post_to_slack and args.slack_webhook is not None
delivers(a) == truth(a.post_to_slack) /\ ~a.slack_webhook.is_none

\* A status test that lets client errors through.
is_error_5xx(status_code) == status_code >= 500

\* response.status_code != 200
is_error(status_code) == status_code # StatusOK

post_to_slack ==
    /\ pc = "deliver"
    /\ delivers(args)
    /\ posts' = Append(posts, [url |-> args.slack_webhook.url,
                               data |-> json_dumps_text(report)])
    /\ \E response \in PostOutcomes :
          /\ http_response' = response
          /\ calls' = Append(calls, Call("post", 0, response.received))
          /\ IF ~response.received
             THEN /\ pc' = "raised"
                  /\ raised' = [type |-> "ConnectionError", status_code |-> 0,
                                text |-> ""]
             ELSE IF is_error(response.status_code)
             THEN /\ pc' = "raised"
                  /\ raised' = [type |-> "ValueError",
                                status_code |-> response.status_code,
                                text |-> response.text]
             ELSE /\ pc' = "done"
                  /\ raised' = raised
    /\ UNCHANGED <<args, registry, aws_iam_session, images_to_check, report, image,
                   scan_findings>>

skip_post ==
    /\ pc = "deliver"
    /\ ~delivers(args)
    /\ pc' = "done"
    /\ UNCHANGED <<args, registry, aws_iam_session, images_to_check, report, image,
                   calls, scan_findings, posts, http_response, raised>>

----------------------------------------------------------------------------
(* Specifications *)

Next ==
    \/ set_iam_role_session
    \/ describe_repositories
    \/ wait_for_scan_completion
    \/ recursive_wait_returns
    \/ recursive_check_make_report
    \/ recursive_check_make_report_returns
    \/ finalise_report
    \/ post_to_slack
    \/ skip_post

Spec == Init /\ [][Next]_vars

NextInit ==
    \/ set_iam_role_session
    \/ describe_repositories

SpecFilter == InitFilter /\ [][NextInit]_vars

----------------------------------------------------------------------------
(* Vocabulary of the properties *)

\* block occurs in text as a contiguous run of tokens
Occurs(block, text) ==
    \E pre \in 0..Len(text) :
        /\ pre + Len(block) <= Len(text)
        /\ \A k \in 1..Len(block) : text[pre + k] = block[k]

OpsOf(op) == {p \in 1..Len(calls) : calls[p].op = op}
OpAt(op, i) == {p \in 1..Len(calls) : calls[p].op = op /\ calls[p].image = i}

Fetched_n == Len(scan_findings)
HadFindings(i) == scan_findings[i].ok /\ scan_findings[i].findings # <<>>
HadNoFindings(i) == scan_findings[i].ok /\ scan_findings[i].findings = <<>>
SomeFinding == \E i \in 1..Fetched_n : HadFindings(i)

\* The block of image i: header, severity-count line, one block per finding.
Block(i) ==
    add_findings(
        title(images_to_check[i]) \o
            severity_counts(SeverityCounts(scan_findings[i].findings), args.result_limit),
        images_to_check[i], args.tag, scan_findings[i].findings)

RECURSIVE BlocksUpTo(_)
BlocksUpTo(n) ==
    IF n = 0 THEN <<>>
    ELSE BlocksUpTo(n - 1) \o (IF HadFindings(n) THEN Block(n) ELSE <<>>)

Headers(text) ==
    {p \in 1..Len(text) : text[p] = "\n\n:warning: *AWS ECR Scan found results for "}

Aggregating == pc \in {"recursive_check_make_report", "finalise_report"}

----------------------------------------------------------------------------
(* Properties *)

\* C1: while and after the repositories are processed, the report is the
\* concatenation, in processing order, of the blocks of the repositories whose
\* fetch returned findings; an earlier block survives every later repository.
C1_ReportIsConcatenation ==
    Aggregating => report = BlocksUpTo(Fetched_n)

\* Each discovered repository has had exactly one wait and then one fetch.
C2_AllAttempted ==
    pc = "finalise_report" =>
        \A i \in 1..Len(images_to_check) :
            /\ Cardinality(OpAt("wait", i)) = 1
            /\ Cardinality(OpAt("fetch", i)) = 1
            /\ \A w \in OpAt("wait", i), f \in OpAt("fetch", i) : w < f

\* main is inside recursive_wait or recursive_check_make_report.
C2_InLoops == pc \in {"recursive_wait", "recursive_check_make_report"}

\* C2: every discovered repository gets its wait and then its fetch whatever
\* failed; no failure leaves the two loops other than towards finalise_report,
\* and the loops never stop short of it.
C2_FailOpen ==
    /\ [](C2_InLoops => raised = NoError /\ ENABLED Next)
    /\ [][C2_InLoops => (pc' \in {"recursive_wait", "recursive_check_make_report",
                                  "finalise_report"} /\ raised' = NoError)]_vars
    /\ []C2_AllAttempted

C2_Witness ==
    /\ pc = "finalise_report"
    /\ Len(images_to_check) >= 2
    /\ \E i, j \in 1..Len(images_to_check) :
          /\ i < j
          /\ \E w \in OpAt("wait", i) : ~calls[w].ok
          /\ ~scan_findings[i].ok
          /\ HadFindings(j)

\* C3: a report that is empty after finalisation is never posted.
C3_EmptyReportNotPosted ==
    (OpsOf("finalise") # {} /\ report = <<>>) => posts = <<>>

\* Command-line texts that ask for delivery to be off.
DenotesDisabled(option) ==
    option.given /\ option.text \in {"False", "false", "0", ""}

\* C4: with delivery disabled on the command line, or without a webhook URL,
\* nothing is posted and the run does not raise once the repositories are
\* discovered.
C4_DisabledNeverPosts ==
    (DenotesDisabled(args.post_to_slack) \/ args.slack_webhook.is_none) =>
        /\ posts = <<>>
        /\ (OpsOf("wait") \cup OpsOf("fetch") \cup OpsOf("finalise") # {} => pc # "raised")

\* C5: a POST is made at most once; answered with a status other than 200 the
\* run raises an error carrying that status and the body; answered with 200 it
\* ends normally.
C5_PostOutcome ==
    /\ Len(posts) <= 1
    /\ http_response.received =>
          /\ Len(posts) = 1
          /\ Cardinality(OpsOf("post")) = 1
          /\ IF http_response.status_code = 200
             THEN pc = "done" /\ raised = NoError
             ELSE /\ pc = "raised"
                  /\ raised.type = "ValueError"
                  /\ raised.status_code = http_response.status_code
                  /\ raised.text = http_response.text

C5_Witness ==
    /\ http_response.received
    /\ http_response.status_code = 500
    /\ pc = "raised"
    /\ report # <<>>

\* C6: a rejected role assumption ends the run at once: it is the only call
\* made, nothing is listed, waited for, fetched, finalised or posted.
C6_SessionFailureAborts ==
    (\E p \in OpsOf("assume_role") : ~calls[p].ok) =>
        /\ pc = "raised"
        /\ raised.type = "ClientError"
        /\ Len(calls) = 1
        /\ images_to_check = <<>>
        /\ report = <<>>
        /\ posts = <<>>

C6_Witness ==
    /\ pc = "raised"
    /\ calls = <<Call("assume_role", 0, FALSE)>>
    /\ registry # <<>>

\* name = prefix \o term \o suffix, character for character.
ContainsTerm(name, term) ==
    \E pre \in 0..Len(name), suf \in 0..Len(name) :
        /\ pre + Len(term) + suf = Len(name)
        /\ \A k \in 1..Len(term) : name[pre + k] = term[k]

\* C7: get_repositories returns exactly the listed names that contain the
\* search term, in listing order; the empty term returns the whole listing.
C7_FilterExact ==
    pc = "recursive_wait" =>
        /\ \E f \in [1..Len(images_to_check) -> 1..Len(registry)] :
              /\ \A k \in 1..Len(images_to_check) : images_to_check[k] = registry[f[k]]
              /\ \A k, l \in 1..Len(images_to_check) : k < l => f[k] < f[l]
              /\ {f[k] : k \in 1..Len(images_to_check)} =
                     {i \in 1..Len(registry) : ContainsTerm(registry[i], args.search)}
        /\ (args.search = <<>> => images_to_check = registry)

C7_Witness ==
    /\ pc = "recursive_wait"
    /\ args.search = <<"a">>
    /\ registry = << <<"A", "A">>, <<"A", "a">> >>
    /\ images_to_check = << <<"A", "a">> >>

\* The step that processes a fetch with an empty findings list.
C8_EmptyFetchStep ==
    (/\ Len(scan_findings') = Len(scan_findings) + 1
     /\ scan_findings'[Len(scan_findings')] = Fetched(<<>>)) => report' = report

C8_NoBlock ==
    \A i \in 1..Fetched_n :
        HadNoFindings(i) => ~Occurs(title(images_to_check[i]), report)

C8_Scenario(a, b) ==
    (/\ pc = "finalise_report"
     /\ Len(images_to_check) = 2
     /\ images_to_check[a] = Svc_a /\ scan_findings[a] = Fetched(<<Cve1234>>)
     /\ images_to_check[b] = Svc_b /\ scan_findings[b] = Fetched(<<>>))
    => /\ report = Block(a)
       /\ Cardinality(Headers(report)) = 1
       /\ Occurs(<<"*CVE:* ", "CVE-1234">>, report)

\* C8: a repository whose fetch returns no findings leaves the report as it
\* was and has no block in it; with svc-a (one finding) and svc-b (none), in
\* either order, the report is exactly svc-a's block.
C8_NoBlockWithoutFindings ==
    /\ [][C8_EmptyFetchStep]_vars
    /\ []C8_NoBlock
    /\ [](C8_Scenario(1, 2) /\ C8_Scenario(2, 1))

C8_Witness ==
    /\ pc = "finalise_report"
    /\ images_to_check = <<Svc_a, Svc_b>>
    /\ scan_findings = <<Fetched(<<Cve1234>>), Fetched(<<>>)>>
    /\ report # <<>>

\* The report at the end of aggregation, and the finalise_report step.
C9_NonEmptyIffFinding ==
    pc = "finalise_report" => (report # <<>> <=> SomeFinding)

C9_FinaliseStep ==
    (pc = "finalise_report" /\ pc' = "deliver") =>
        IF SomeFinding
        THEN \E b \in EnvValues, u \in EnvValues : report' = report \o branch_info(b, u)
        ELSE report = <<>> /\ report' = <<>>

\* C9: when aggregation has finished the report is non-empty exactly when some
\* fetch returned a finding; finalise_report then appends the branch/build
\* block exactly in that case and leaves an empty report empty.
C9_MetadataIffFinding ==
    /\ []C9_NonEmptyIffFinding
    /\ [][C9_FinaliseStep]_vars

C9_Witness ==
    /\ pc = "deliver"
    /\ SomeFinding
    /\ \E i \in 1..Fetched_n : ~scan_findings[i].ok
    /\ Occurs(<<"\n*Github Branch:* ", "main">>, report)

\* C10 as stated: the fetch for a repository happens before the wait for the
\* next repository begins.
C10_FetchBeforeNextWait ==
    \A i \in 1..Len(images_to_check) : \A q \in OpAt("wait", i + 1) :
        \E r \in OpAt("fetch", i) : r < q

\* C10 as the code has it: two passes in discovery order, every wait before
\* the first fetch, and each repository's fetch after its own wait.
C10_TwoPasses ==
    /\ \A p \in OpsOf("fetch"), q \in OpsOf("wait") : q < p
    /\ \A p \in OpsOf("fetch") : \E q \in OpAt("wait", calls[p].image) : q < p
    /\ OpsOf("fetch") # {} =>
          \A i \in 1..Len(images_to_check) : OpAt("wait", i) # {}
    /\ \A op \in {"wait", "fetch"} : \A p, q \in OpsOf(op) :
          p < q => calls[p].image < calls[q].image

C10_Witness ==
    /\ pc = "finalise_report"
    /\ Len(images_to_check) >= 2

====
